---- MODULE Spec2Model ----
(***************************************************************************)
(* A model of the Rerl actor runtime: src/process.rs (Process::run,        *)
(* ProcessHandle::send, ProcessBuilder::spawn), src/gen_server.rs          *)
(* (GenServer::start / cast / call and the dispatching handler closure)    *)
(* and src/error.rs (SwErlError::is_recoverable).                          *)
(*                                                                         *)
(* One GenServer process is modelled together with the clients that hold   *)
(* clones of its ProcessHandle.  The tokio primitives are modelled by      *)
(* what they do: mpsc::channel(n) is a bounded FIFO whose send suspends    *)
(* while n messages are queued and fails once the Receiver has been        *)
(* dropped; dropping the Receiver drops every queued message; a oneshot    *)
(* channel carries at most one value and its receiver observes an error    *)
(* when the Sender is dropped unused.                                      *)
(***************************************************************************)
EXTENDS Integers, Sequences, FiniteSets, TLC

(* ------------------------------ bounds -------------------------------- *)

\* Mailbox capacity of the model.  The code uses mpsc::channel(100)
\* (src/process.rs:91); the model scales it down so that a full mailbox is
\* reached with few messages.
Capacity == 2

\* Number of operations (cast / call / send) the clients may issue in all.
MaxOps == 3

\* Number of processes that may be spawned through ProcessBuilder.
MaxProcs == 3

\* The tasks that may hold a clone of the ProcessHandle; Starter is the one
\* that calls GenServer::start.
Clients == {"c1", "c2"}
Starter == "c1"

(* ------------------------------ values -------------------------------- *)

\* enum SwErlError
ErrorKinds ==
    {"ProcessNotFound", "InvalidState", "MailboxClosed", "Timeout", "CastFailed"}

\* Result values: Ok(()) / Ok(v) / Err(kind).
OkUnit == [tag |-> "Ok", val |-> 0, err |-> "none"]
OkV(v) == [tag |-> "Ok", val |-> v, err |-> "none"]
ErrV(k) == [tag |-> "Err", val |-> 0, err |-> k]
NoRes == [tag |-> "None", val |-> 0, err |-> "none"]
\* Marks a call whose future was dropped before it resolved.
Abandoned == [tag |-> "Abandoned", val |-> 0, err |-> "none"]

Errs == {ErrV(k) : k \in ErrorKinds}

\* Messages: a CastMessage envelope, a CallMessage envelope (its oneshot
\* Sender is the channel chan[<<from, seq>>]) or a raw payload.
MsgKinds == {"cast", "call", "raw"}
Msg(k, c, s) == [kind |-> k, from |-> c, seq |-> s]
NoMsg == [kind |-> "none", from |-> "none", seq |-> 0]
Id(m) == <<m.from, m.seq>>

\* The scenario of the counter server: this many casts, then a "get" call.
ScenarioCasts == 5

\* The largest sequence number an operation can get.
MaxSeq == IF MaxOps > ScenarioCasts + 1 THEN MaxOps ELSE ScenarioCasts + 1
CallIds == Clients \X (1..MaxSeq)

\* Option<String>, the `name` field of ProcessBuilder.
None == [some |-> FALSE, val |-> ""]
Some(n) == [some |-> TRUE, val |-> n]

\* The names callers give to processes.
Names == {"alice", "bob"}

\* What Uuid::new_v4().to_string() returns at the i-th spawn.  Version 4
\* UUIDs are random 122-bit values: the model takes two generated ones to
\* be different.
UuidTokens == <<"uuid-1", "uuid-2", "uuid-3", "uuid-4", "uuid-5">>

\* A oneshot channel: st is
\*   "absent"    not created,
\*   "open"      Sender (inside the envelope) and Receiver both alive, no value,
\*   "full"      a value was sent and not yet received,
\*   "txdropped" Sender dropped without sending, Receiver alive,
\*   "rxdropped" Receiver dropped, Sender alive,
\*   "done"      both ends gone.
Chan(st, v) == [st |-> st, val |-> v]

VARIABLES
    initResult,   \* what the behaviour's init returned (NoRes before start)
    startResult,  \* what GenServer::start returned (NoRes before it is called)
    status,       \* "NoProcess", "Running", "StoppedOk", "StoppedErr"
    runResult,    \* what Process::run returned (NoRes while it has not)
    state,        \* the process's State cell (a counter)
    queue,        \* the mailbox: messages enqueued and not yet received
    inflight,     \* the messages whose handler future is active
    handled,      \* history: per sender, the seq numbers given to the handler, in order
    out,          \* what the handler future just returned, until run has looked at it
    replied,      \* history: per call envelope, number of reply_tx.send calls
    resolved,     \* history: per call, number of times it returned to its caller
    chan,         \* the oneshot reply channels, per call envelope
    handle,       \* per client: "held" while it owns a clone of the handle, else "none"
    pc,           \* per client: "idle", "sending", "awaiting"
    cur,          \* per client: the message of the operation in progress
    nOps,         \* per client: operations issued so far
    lastRes,      \* history: per client, how its last finished operation ended
    builder,      \* the ProcessBuilder a caller is configuring, if any
    procs         \* the processes spawned so far: identifier, and whether run has not returned

vars == <<initResult, startResult, status, runResult, state, queue, inflight, handled,
          out, replied, resolved, chan, handle, pc, cur, nOps, lastRes, builder, procs>>

procVars == <<status, runResult, state, queue, inflight, handled, out, replied>>
clientVars == <<pc, cur, nOps, lastRes>>
spawnVars == <<builder, procs>>

(* --------------------------- error taxonomy --------------------------- *)

IsRecoverableFlipped(k) == k \notin {"ProcessNotFound", "Timeout"}

\* SwErlError::is_recoverable
IsRecoverable(k) ==
    CASE k = "ProcessNotFound" -> TRUE
      [] k = "InvalidState" -> FALSE
      [] k = "MailboxClosed" -> FALSE
      [] k = "Timeout" -> TRUE
      [] k = "CastFailed" -> FALSE

(* ------------------------------ mailbox ------------------------------- *)

CanEnqueueUnbounded(q) == TRUE

\* mpsc::channel(n): Sender::send takes a free slot or suspends.
CanEnqueue(q) == Len(q) < Capacity

EnqueueFront(q, m) == <<m>> \o q

\* Sender::send pushes at the tail of the queue.
Enqueue(q, m) == Append(q, m)

RestSkipping(q) == IF Len(q) >= 2 THEN Tail(Tail(q)) ELSE Tail(q)

\* Receiver::recv pops the head of the queue.
First(q) == Head(q)
Rest(q) == Tail(q)

LoopReadyAlways == TRUE

\* No handler result waits for the run loop.
NoOut == [callback |-> "none", cb |-> NoRes, res |-> NoRes]

\* Process::run awaits the handler future of a message, and looks at its
\* result, before it calls recv again: `handler(self.state.clone(),
\* msg).await` inside `while let`.
LoopReady == inflight = {} /\ out = NoOut

NoSendersSome == \E c \in Clients : handle[c] # "held"

\* recv returns None once every Sender is gone and the queue is empty.
NoSenders == \A c \in Clients : handle[c] # "held"

(* --------------------------- process factory -------------------------- *)

\* No ProcessBuilder is being configured.
NoBuilder == [made |-> FALSE, name |-> None]

\* ProcessBuilder::spawn: `self.name.unwrap_or_else(|| Uuid::new_v4().to_string())`
Pid(name, ps) == IF name.some THEN name.val ELSE UuidTokens[Len(ps) + 1]

\* ProcessBuilder::spawn: the process is created with its identifier and
\* its run loop is launched.
Spawned(name, ps) == Append(ps, [pid |-> Pid(name, ps), alive |-> TRUE])

\* Process::run of the i-th process has returned.
Exited(ps, i) == [ps EXCEPT ![i].alive = FALSE]

(* ----------------------- GenServer dispatching ------------------------ *)

\* The state `init` returns for the counter server.
InitState == 0

\* What init may return.
InitResults == {OkV(InitState)} \cup Errs

SpawnsAlways(r) == TRUE

\* `behavior.init(args).await?`: start goes on to spawn only on Ok.
Spawns(r) == r.tag = "Ok"

CallbackCastUnknown(m) == IF m.kind = "call" THEN "handle_call" ELSE "none"

\* The callback the handler closure routes a message to (the downcasts).
Callback(m) ==
    IF m.kind = "cast" THEN "handle_cast"
    ELSE IF m.kind = "call" THEN "handle_call"
    ELSE "none"

\* What the behaviour's callback for m may return: handle_cast a
\* Result<(), SwErlError>, handle_call a Result<Message, SwErlError> (the
\* counter's "get" replies the state); no callback runs for a raw payload.
BehaviourResults(m, st) ==
    CASE Callback(m) = "handle_cast" -> {OkUnit} \cup Errs
      [] Callback(m) = "handle_call" -> {OkV(st)} \cup Errs
      [] OTHER -> {OkUnit}

\* The counter behaviour: a successful handle_cast adds one.
NewState(m, st, r) ==
    IF Callback(m) = "handle_cast" /\ r.tag = "Ok" THEN st + 1 ELSE st

HandlerResultForwardAll(m, r) ==
    IF Callback(m) = "none" THEN OkUnit ELSE [r EXCEPT !.val = 0]
HandlerResultUnknownFails(m, r) ==
    CASE Callback(m) = "handle_cast" -> r
      [] Callback(m) = "handle_call" -> OkUnit
      [] OTHER -> ErrV("InvalidState")

\* What the handler closure returns to the run loop: handle_cast's result
\* for a cast, Ok(()) after replying to a call, Ok(()) for anything else.
HandlerResult(m, r) == IF Callback(m) = "handle_cast" THEN r ELSE OkUnit

\* oneshot::Sender::send returns Ok exactly when the Receiver is alive.
ReplyDelivered(ch) == ch.st = "open"

PropagateSendResult(delivered, hr) ==
    IF delivered THEN hr ELSE ErrV("MailboxClosed")

\* `let _ = reply_tx.send(result);`: what the send returned is discarded.
DiscardSendResult(delivered, hr) == hr

ContinuesNever(hr) == hr.tag = "Ok"

\* Process::run: `if let Err(e) = ... { if !e.is_recoverable() { return Err(e) } }`
Continues(hr) == hr.tag = "Ok" \/ IsRecoverable(hr.err)

ReplySendOkOnly(ch, r) ==
    CASE ch.st = "open" /\ r.tag = "Ok" -> Chan("full", r)
      [] ch.st = "open" -> Chan("txdropped", NoRes)
      [] ch.st = "rxdropped" -> Chan("done", NoRes)
      [] OTHER -> ch

\* oneshot::Sender::send(result): stores the value if the Receiver is alive.
ReplySend(ch, r) ==
    CASE ch.st = "open" -> Chan("full", r)
      [] ch.st = "rxdropped" -> Chan("done", NoRes)
      [] OTHER -> ch

\* Dropping a oneshot Sender that was never used.
TxDrop(ch) ==
    CASE ch.st = "open" -> Chan("txdropped", NoRes)
      [] ch.st = "rxdropped" -> Chan("done", NoRes)
      [] OTHER -> ch

\* Dropping a oneshot Receiver.
RxDrop(ch) ==
    CASE ch.st = "open" -> Chan("rxdropped", NoRes)
      [] OTHER -> Chan("done", NoRes)

InQueue(q, id) == \E i \in 1..Len(q) : q[i].kind = "call" /\ Id(q[i]) = id

DropEnvelopesLeak(ch, q) == ch

\* Dropping the mpsc Receiver drops the queued messages, and with each
\* queued CallMessage its reply Sender.
DropEnvelopes(ch, q) ==
    [id \in CallIds |-> IF InQueue(q, id) THEN TxDrop(ch[id]) ELSE ch[id]]

KeepBacklog(q) == q

\* `return Err(e)` drops `self`, and with it the mailbox Receiver: the
\* backlog is dropped.
DropBacklog(q) == <<>>

RecvErrorTimeout == ErrV("Timeout")

\* GenServer::call: `Err(_) => Err(SwErlError::MailboxClosed)`
RecvError == ErrV("MailboxClosed")

SendErrorCastFailed == ErrV("CastFailed")

\* ProcessHandle::send: `.map_err(|_| SwErlError::MailboxClosed)`
SendError == ErrV("MailboxClosed")

SendFailsWhenFull(q) == status # "Running" \/ Len(q) >= Capacity

\* Sender::send(msg).await fails only when the Receiver has been dropped,
\* which happens when Process::run returns.
SendFails(q) == status # "Running"

AwaitsReplyAlways(m) == TRUE

\* After its envelope is enqueued GenServer::call goes on to `rx.await`;
\* GenServer::cast and ProcessHandle::send return the send's Ok(()).
AwaitsReply(m) == m.kind = "call"

\* The record of how an operation ended.
Done(m, r) == [seq |-> m.seq, kind |-> m.kind, res |-> r]

(* ------------------------------ actions ------------------------------- *)

Init ==
    /\ initResult = NoRes
    /\ startResult = NoRes
    /\ status = "NoProcess"
    /\ runResult = NoRes
    /\ state = 0
    /\ queue = <<>>
    /\ inflight = {}
    /\ handled = [c \in Clients |-> <<>>]
    /\ out = NoOut
    /\ replied = [id \in CallIds |-> 0]
    /\ resolved = [id \in CallIds |-> 0]
    /\ chan = [id \in CallIds |-> Chan("absent", NoRes)]
    /\ handle = [c \in Clients |-> "none"]
    /\ pc = [c \in Clients |-> "idle"]
    /\ cur = [c \in Clients |-> NoMsg]
    /\ nOps = [c \in Clients |-> 0]
    /\ lastRes = [c \in Clients |-> Done(NoMsg, NoRes)]
    /\ builder = NoBuilder
    /\ procs = <<>>

\* GenServer::start called by client c; r is what init returns.
Start(c, r) ==
    /\ startResult = NoRes
    /\ initResult' = r
    /\ startResult' = IF r.tag = "Ok" THEN OkUnit ELSE r
    /\ IF Spawns(r)
       THEN /\ status' = "Running"
            /\ state' = r.val
            /\ handle' = [handle EXCEPT ![c] = "held"]
            /\ procs' = Spawned(None, procs)
       ELSE UNCHANGED <<status, state, handle, procs>>
    /\ UNCHANGED builder
    /\ UNCHANGED <<runResult, queue, inflight, handled, out, replied>>
    /\ UNCHANGED <<resolved, chan>>
    /\ UNCHANGED clientVars

\* ProcessHandle::clone: client c gives a clone of its handle to d.
Clone(c, d) ==
    /\ handle[c] = "held"
    /\ handle[d] = "none"
    /\ handle' = [handle EXCEPT ![d] = "held"]
    /\ UNCHANGED <<initResult, startResult, resolved, chan>>
    /\ UNCHANGED procVars
    /\ UNCHANGED clientVars
    /\ UNCHANGED spawnVars

\* Client c drops its handle (no operation of c borrows it).
DropHandle(c) ==
    /\ handle[c] = "held"
    /\ pc[c] = "idle"
    /\ handle' = [handle EXCEPT ![c] = "none"]
    /\ UNCHANGED <<initResult, startResult, resolved, chan>>
    /\ UNCHANGED procVars
    /\ UNCHANGED clientVars
    /\ UNCHANGED spawnVars

\* ProcessHandle::send(m) polled by client c: MailboxClosed if the Receiver
\* is gone; else the message takes a free slot; with no free slot the
\* sender is (or stays) suspended.  For a cast or a raw send a completed
\* send ends the operation; for GenServer::call an error is returned (`?`)
\* and a success goes on to await the reply.
Send(c, m) ==
    IF SendFails(queue)
    THEN /\ lastRes' = [lastRes EXCEPT ![c] = Done(m, SendError)]
         /\ pc' = [pc EXCEPT ![c] = "idle"]
         /\ cur' = [cur EXCEPT ![c] = NoMsg]
         /\ chan' = IF m.kind = "call"
                    THEN [chan EXCEPT ![Id(m)] = Chan("done", NoRes)]
                    ELSE chan
         /\ resolved' = IF m.kind = "call"
                        THEN [resolved EXCEPT ![Id(m)] = @ + 1]
                        ELSE resolved
         /\ UNCHANGED queue
    ELSE IF CanEnqueue(queue)
    THEN /\ queue' = Enqueue(queue, m)
         /\ IF AwaitsReply(m)
            THEN /\ pc' = [pc EXCEPT ![c] = "awaiting"]
                 /\ cur' = [cur EXCEPT ![c] = m]
                 /\ chan' = [chan EXCEPT ![Id(m)] = Chan("open", NoRes)]
                 /\ UNCHANGED lastRes
            ELSE /\ lastRes' = [lastRes EXCEPT ![c] = Done(m, OkUnit)]
                 /\ pc' = [pc EXCEPT ![c] = "idle"]
                 /\ cur' = [cur EXCEPT ![c] = NoMsg]
                 /\ UNCHANGED chan
         /\ UNCHANGED resolved
    ELSE /\ pc' = [pc EXCEPT ![c] = "sending"]
         /\ cur' = [cur EXCEPT ![c] = m]
         /\ chan' = IF m.kind = "call"
                    THEN [chan EXCEPT ![Id(m)] = Chan("open", NoRes)]
                    ELSE chan
         /\ UNCHANGED <<queue, lastRes, resolved>>

\* Operations issued so far by all clients.
RECURSIVE SumOps(_, _)
SumOps(f, S) ==
    IF S = {} THEN 0
    ELSE LET c == CHOOSE x \in S : TRUE IN f[c] + SumOps(f, S \ {c})

\* Client c calls GenServer::cast, GenServer::call or ProcessHandle::send:
\* the envelope is built (for a call, with a fresh oneshot channel) and the
\* send is polled for the first time.
IssueOp(c, k) ==
    /\ handle[c] = "held"
    /\ pc[c] = "idle"
    /\ nOps' = [nOps EXCEPT ![c] = @ + 1]
    /\ Send(c, Msg(k, c, nOps[c] + 1))
    /\ UNCHANGED <<initResult, startResult, handle>>
    /\ UNCHANGED <<status, runResult, state, inflight, handled, out, replied>>
    /\ UNCHANGED spawnVars

\* An operation of any kind, while the clients' budget lasts.
Issue(c, k) ==
    /\ SumOps(nOps, Clients) < MaxOps
    /\ IssueOp(c, k)

\* A suspended send of client c is woken: a slot was freed, or the
\* Receiver was dropped.
SendStep(c) ==
    /\ pc[c] = "sending"
    /\ SendFails(queue) \/ CanEnqueue(queue)
    /\ Send(c, cur[c])
    /\ UNCHANGED <<initResult, startResult, handle, nOps>>
    /\ UNCHANGED <<status, runResult, state, inflight, handled, out, replied>>
    /\ UNCHANGED spawnVars

\* GenServer::call: `rx.await` resolves with the reply, or with
\* MailboxClosed when the reply Sender was dropped unused.
CallReturn(c) ==
    LET m == cur[c]
        ch == chan[Id(m)]
    IN
    /\ pc[c] = "awaiting"
    /\ ch.st \in {"full", "txdropped"}
    /\ lastRes' = [lastRes EXCEPT
                     ![c] = Done(m, IF ch.st = "full" THEN ch.val ELSE RecvError)]
    /\ resolved' = [resolved EXCEPT ![Id(m)] = @ + 1]
    /\ chan' = [chan EXCEPT ![Id(m)] = Chan("done", NoRes)]
    /\ pc' = [pc EXCEPT ![c] = "idle"]
    /\ cur' = [cur EXCEPT ![c] = NoMsg]
    /\ UNCHANGED <<initResult, startResult, handle, nOps>>
    /\ UNCHANGED procVars
    /\ UNCHANGED spawnVars

\* The caller drops the future of a call that awaits its reply.
Abandon(c) ==
    LET m == cur[c] IN
    /\ pc[c] = "awaiting"
    /\ lastRes' = [lastRes EXCEPT ![c] = Done(m, Abandoned)]
    /\ chan' = [chan EXCEPT ![Id(m)] = RxDrop(@)]
    /\ pc' = [pc EXCEPT ![c] = "idle"]
    /\ cur' = [cur EXCEPT ![c] = NoMsg]
    /\ UNCHANGED <<initResult, startResult, resolved, handle, nOps>>
    /\ UNCHANGED procVars
    /\ UNCHANGED spawnVars

\* Process::run: `self.mailbox.recv().await` yields Some(msg) and the
\* handler is invoked on it.
Recv ==
    LET m == First(queue) IN
    /\ status = "Running"
    /\ LoopReady
    /\ queue # <<>>
    /\ inflight' = inflight \cup {m}
    /\ handled' = [handled EXCEPT ![m.from] = Append(@, m.seq)]
    /\ queue' = Rest(queue)
    /\ UNCHANGED <<initResult, startResult, status, runResult, state, out,
                   replied, resolved, chan, handle>>
    /\ UNCHANGED clientVars
    /\ UNCHANGED spawnVars

\* Process::run: recv yields None, the loop ends, run returns Ok(()).
RecvNone ==
    /\ status = "Running"
    /\ LoopReady
    /\ queue = <<>>
    /\ NoSenders
    /\ status' = "StoppedOk"
    /\ runResult' = OkUnit
    /\ procs' = Exited(procs, Len(procs))
    /\ UNCHANGED builder
    /\ UNCHANGED <<initResult, startResult, state, queue, inflight, handled,
                   out, replied, resolved, chan, handle>>
    /\ UNCHANGED clientVars

\* The handler future of message m completes, the behaviour's callback
\* having returned r: the callback's effect on the state is made, a call
\* is replied to, and the closure's result is handed to the run loop.
HandlerReturn(m, r) ==
    /\ status = "Running"
    /\ m \in inflight
    /\ out = NoOut
    /\ r \in BehaviourResults(m, state)
    /\ inflight' = inflight \ {m}
    /\ state' = NewState(m, state, r)
    /\ out' = [callback |-> Callback(m), cb |-> r,
               res |-> IF Callback(m) = "handle_call"
                       THEN DiscardSendResult(ReplyDelivered(chan[Id(m)]),
                                              HandlerResult(m, r))
                       ELSE HandlerResult(m, r)]
    /\ replied' = IF Callback(m) = "handle_call"
                  THEN [replied EXCEPT ![Id(m)] = @ + 1]
                  ELSE replied
    /\ chan' = IF Callback(m) = "handle_call"
               THEN [chan EXCEPT ![Id(m)] = ReplySend(@, r)]
               ELSE chan
    /\ UNCHANGED <<initResult, startResult, status, runResult, queue, handled,
                   resolved, handle>>
    /\ UNCHANGED clientVars
    /\ UNCHANGED spawnVars

HandlerDone ==
    \E m \in inflight : \E r \in Errs \cup {OkUnit, OkV(state)} : HandlerReturn(m, r)

\* Process::run looks at what the handler returned: on Ok or a recoverable
\* error the loop goes on; on a non-recoverable error run returns it, and
\* the process (with its mailbox Receiver) is dropped.
LoopCheck ==
    /\ status = "Running"
    /\ out # NoOut
    /\ out' = NoOut
    /\ IF Continues(out.res)
       THEN UNCHANGED <<status, runResult, queue, chan, procs>>
       ELSE /\ status' = "StoppedErr"
            /\ runResult' = out.res
            /\ procs' = Exited(procs, Len(procs))
            /\ queue' = DropBacklog(queue)
            /\ chan' = DropEnvelopes(chan, queue)
    /\ UNCHANGED <<initResult, startResult, state, inflight, handled, replied,
                   resolved, handle>>
    /\ UNCHANGED clientVars
    /\ UNCHANGED builder

Next ==
    \/ \E r \in InitResults : Start(Starter, r)
    \/ \E c, d \in Clients : Clone(c, d)
    \/ \E c \in Clients : DropHandle(c)
    \/ \E c \in Clients : \E k \in MsgKinds : Issue(c, k)
    \/ \E c \in Clients : SendStep(c)
    \/ \E c \in Clients : CallReturn(c)
    \/ \E c \in Clients : Abandon(c)
    \/ Recv
    \/ RecvNone
    \/ HandlerDone
    \/ LoopCheck

Spec == Init /\ [][Next]_vars

\* Scheduling: the runtime polls the run loop's task and every client task
\* that can make progress, and handler futures complete.  A suspended
\* sender that can take a slot from some point on does take one (tokio's
\* mpsc semaphore serves its waiters in FIFO order, which is stronger).
\* What a client chooses to do next (issue, clone, drop, abandon) is not
\* forced.
Fairness ==
    /\ WF_vars(Recv)
    /\ WF_vars(RecvNone)
    /\ WF_vars(HandlerDone)
    /\ WF_vars(LoopCheck)
    /\ \A c \in Clients : WF_vars(SendStep(c))
    /\ \A c \in Clients : WF_vars(CallReturn(c))

FairSpec == Spec /\ Fairness

\* The scenario of the counter server: init succeeds, the starter sends
\* casts (at most ScenarioCasts of them) and then one "get" call through its
\* handle, handle_cast and handle_call never fail; meanwhile the holders of
\* other clones may send raw payloads and calls, but no cast.
ScenarioIssue ==
    \E k \in {"cast", "call"} :
        /\ lastRes[Starter].kind # "call"
        /\ k = "cast" => nOps[Starter] < ScenarioCasts
        /\ IssueOp(Starter, k)

ScenarioOther ==
    \E c \in Clients \ {Starter} : \E k \in {"raw", "call"} :
        /\ nOps[c] < MaxOps
        /\ IssueOp(c, k)

ScenarioHandlerDone ==
    \E m \in inflight :
        HandlerReturn(m, IF Callback(m) = "handle_call" THEN OkV(state) ELSE OkUnit)

ScenarioNext ==
    \/ Start(Starter, OkV(InitState))
    \/ \E c, d \in Clients : Clone(c, d)
    \/ ScenarioIssue
    \/ ScenarioOther
    \/ \E c \in Clients : SendStep(c)
    \/ \E c \in Clients : CallReturn(c)
    \/ Recv
    \/ ScenarioHandlerDone
    \/ LoopCheck

ScenarioSpec == Init /\ [][ScenarioNext]_vars

TypeOK ==
    /\ status \in {"NoProcess", "Running", "StoppedOk", "StoppedErr"}
    /\ state \in 0..MaxSeq
    /\ Len(queue) <= Capacity
    /\ \A c \in Clients : pc[c] \in {"idle", "sending", "awaiting"}

(* ------------------------------- claims ------------------------------- *)

Stopped == status \in {"StoppedOk", "StoppedErr"}

\* C1: at most one handler invocation is active against the process's
\* state at any time, whatever the senders do and however long a handler
\* stays suspended.
C1_OneHandlerAtATime == Cardinality(inflight) <= 1

\* A handler is active while messages of both clients wait in the mailbox.
C1_Witness ==
    /\ inflight # {}
    /\ \E i, j \in 1..Len(queue) : queue[i].from # queue[j].from

\* C2: the messages sent one after another through one handle are given
\* to the handler in the order they were sent.
C2_FifoPerHandle ==
    \A c \in Clients :
        \A i, j \in 1..Len(handled[c]) :
            i < j => handled[c][i] < handled[c][j]

\* Two messages of one client and one of the other have been handled.
C2_Witness ==
    \E c, d \in Clients :
        /\ c # d
        /\ Len(handled[c]) >= 2
        /\ Len(handled[d]) >= 1

\* C3: a call returns to its caller at most once and its reply channel is
\* used at most once; what the call returns is the reply when one was sent
\* and a MailboxClosed error when none was.
C3_CallResolvesOnce ==
    /\ \A id \in CallIds : resolved[id] <= 1 /\ replied[id] <= 1
    /\ \A c \in Clients :
        LET lr == lastRes[c] IN
        (lr.kind = "call" /\ lr.res # Abandoned) =>
            /\ resolved[<<c, lr.seq>>] = 1
            /\ lr.res.tag \in {"Ok", "Err"}
            /\ replied[<<c, lr.seq>>] = 0 => lr.res = ErrV("MailboxClosed")

\* One call has returned a reply and another one MailboxClosed, no reply
\* having been sent for it.
C3_Witness ==
    \E c, d \in Clients :
        /\ lastRes[c].kind = "call" /\ lastRes[c].res.tag = "Ok"
        /\ replied[<<c, lastRes[c].seq>>] = 1
        /\ lastRes[d].kind = "call" /\ lastRes[d].res = ErrV("MailboxClosed")
        /\ replied[<<d, lastRes[d].seq>>] = 0

\* A call of client c that has been issued and for which no reply was sent:
\* its envelope waits for a slot, is queued, or is being handled.
PendingCall(c) ==
    /\ pc[c] \in {"sending", "awaiting"}
    /\ cur[c].kind = "call"
    /\ replied[Id(cur[c])] = 0

\* C4: a call that is pending when its target process has terminated
\* returns MailboxClosed when it returns (unless its caller gives it up),
\* and it does return: no operation stays blocked on a terminated process.
C4_PendingCallFails ==
    /\ [][\A c \in Clients :
             (Stopped /\ PendingCall(c) /\ pc'[c] = "idle") =>
                 \/ lastRes'[c] = Done(cur[c], ErrV("MailboxClosed"))
                 \/ lastRes'[c] = Done(cur[c], Abandoned)]_vars
    /\ \A c \in Clients : (Stopped /\ pc[c] # "idle") ~> (pc[c] = "idle")

\* The process has stopped on a non-recoverable error while a call envelope
\* was queued: its caller still awaits, the reply Sender is gone.
C4_Witness ==
    \E c \in Clients :
        /\ status = "StoppedErr"
        /\ PendingCall(c)
        /\ pc[c] = "awaiting"
        /\ chan[Id(cur[c])].st = "txdropped"

\* A send of client c has just completed (in the step to the primed state).
SendCompletes(c) ==
    \/ nOps'[c] > nOps[c] /\ pc'[c] # "sending"
    \/ pc[c] = "sending" /\ pc'[c] # "sending"

\* C5 as stated: once the handler has failed with a non-recoverable error
\* no further message is handled, the queued messages are retained, and
\* sends through the handles still held go on succeeding or suspend: none
\* fails.
C5_BacklogRetained ==
    [][status' = "StoppedErr" =>
         /\ handled' = handled
         /\ Len(queue') >= Len(queue)
         /\ SubSeq(queue', 1, Len(queue)) = queue
         /\ \A c \in Clients :
              SendCompletes(c) /\ pc'[c] = "idle" => lastRes'[c].res = OkUnit
      ]_vars

\* C5 amended: once the handler has failed with a non-recoverable error no
\* further message is handled; the mailbox Receiver is dropped with the
\* process, so the queued messages are discarded unhandled and every send
\* through a handle still held that completes, a suspended one included,
\* fails with MailboxClosed; none enqueues and none newly suspends.
C5_BacklogDropped ==
    [][status' = "StoppedErr" =>
         /\ handled' = handled
         /\ queue' = <<>>
         /\ \A c \in Clients :
              /\ SendCompletes(c) =>
                    pc'[c] = "idle" /\ lastRes'[c].res = ErrV("MailboxClosed")
              /\ pc'[c] = "sending" => pc[c] = "sending"
      ]_vars

\* After the process stopped on an error, a cast through a handle still
\* held has failed with MailboxClosed.
C5_Witness ==
    \E c \in Clients :
        /\ status = "StoppedErr"
        /\ handle[c] = "held"
        /\ lastRes[c].kind = "cast"
        /\ lastRes[c].res = ErrV("MailboxClosed")

\* C6: when the handler returns a non-recoverable error the process goes to
\* Stopped(Err) for good, run returns that error and no later message is
\* handled; when it returns a recoverable error the process stays Running
\* with its mailbox untouched, ready for the next message.
C6_RecoverabilityPolicy ==
    [][/\ (out # NoOut /\ out' = NoOut /\ out.res.tag = "Err") =>
            IF IsRecoverable(out.res.err)
            THEN /\ status' = "Running"
                 /\ runResult' = NoRes
                 /\ queue' = queue
                 /\ LoopReady'
            ELSE /\ status' = "StoppedErr"
                 /\ runResult' = out.res
       /\ status = "StoppedErr" =>
            /\ status' = "StoppedErr"
            /\ runResult' = runResult
            /\ handled' = handled
            /\ inflight' = {}
      ]_vars

\* handle_cast has returned a recoverable error to the run loop of the
\* Running process while another message waits in the mailbox.
C6_Witness ==
    /\ status = "Running"
    /\ out.callback = "handle_cast"
    /\ out.res.tag = "Err"
    /\ IsRecoverable(out.res.err)
    /\ queue # <<>>

\* handle_cast has returned a non-recoverable error and run has returned it.
C6_WitnessStopped ==
    /\ status = "StoppedErr"
    /\ runResult.tag = "Err"
    /\ ~IsRecoverable(runResult.err)

\* C7: for the counter server, when a client has sent n casts and then a
\* "get" call through its handle (n up to ScenarioCasts), the reply is the
\* initial state plus n: every cast sent before the call was applied before
\* handle_call ran.
C7_CounterReply ==
    LET lr == lastRes[Starter] IN
    lr.kind = "call" => lr.res = OkV(InitState + (lr.seq - 1))

\* ScenarioCasts casts and then a call through one handle: the reply is
\* ScenarioCasts.
C7_Witness ==
    /\ lastRes[Starter].kind = "call"
    /\ lastRes[Starter].seq = ScenarioCasts + 1
    /\ lastRes[Starter].res = OkV(ScenarioCasts)

\* A send (the enqueue step of a cast, a call or a raw send) of client c
\* has returned an error.
SendFailed(c) ==
    /\ lastRes[c].res.tag = "Err"
    /\ lastRes[c].kind = "call" => replied[<<c, lastRes[c].seq>>] = 0

\* C8: a send that finds the mailbox full suspends and eventually
\* completes, and no send returns an error unless a handler has failed with
\* a non-recoverable error.
C8_Backpressure ==
    /\ \A c \in Clients : (pc[c] = "sending") ~> (pc[c] # "sending")
    /\ [](\A c \in Clients : SendFailed(c) => status = "StoppedErr")
    /\ [][\A c \in Clients :
             (pc[c] = "sending" /\ pc'[c] # "sending" /\ status' = "Running")
                 => /\ Len(queue') = Len(queue) + 1
                    /\ queue'[Len(queue')] = cur[c]]_vars

\* The mailbox of the running process is full and a sender is suspended.
C8_Witness ==
    \E c \in Clients :
        /\ status = "Running"
        /\ Len(queue) = Capacity
        /\ pc[c] = "sending"

\* C9: if init fails, start returns that error and nothing is spawned: no
\* process, no mailbox, no run loop, no handle; a process exists only
\* after init has succeeded.
C9_InitFailureSpawnsNothing ==
    /\ initResult.tag = "Err" =>
          /\ startResult = initResult
          /\ status = "NoProcess"
          /\ runResult = NoRes
          /\ queue = <<>>
          /\ inflight = {}
          /\ \A c \in Clients : handle[c] = "none" /\ nOps[c] = 0
    /\ status # "NoProcess" => initResult.tag = "Ok" /\ startResult = OkUnit

\* init has failed and start has returned.
C9_Witness == initResult.tag = "Err" /\ startResult.tag = "Err"

\* C10: handling a message that is neither a cast nor a call envelope
\* invokes no callback, leaves the state unchanged and the process Running
\* with its mailbox intact, ready for the next message.
C10_UnknownIgnored ==
    [][/\ ((\E m \in inflight : m.kind = "raw") /\ inflight' = {}) =>
            /\ out'.callback = "none"
            /\ out'.res = OkUnit
            /\ state' = state
            /\ replied' = replied
            /\ chan' = chan
            /\ status' = "Running"
            /\ queue' = queue
       /\ (out # NoOut /\ out.callback = "none" /\ out' = NoOut) =>
            /\ state' = state
            /\ status' = "Running"
            /\ queue' = queue
            /\ LoopReady'
      ]_vars

\* A raw payload was given to the handler, which ignored it and returned
\* Ok to the run loop, while another message waits in the mailbox.
C10_Witness ==
    /\ status = "Running"
    /\ out.callback = "none"
    /\ out.res = OkUnit
    /\ queue # <<>>

\* C11: the process leaves Running only (a) to Stopped(Ok), when no client
\* holds a handle any more and the mailbox is empty, or (b) to Stopped(Err),
\* when the handler has returned a non-recoverable error; while some handle
\* is held, dropping another one leaves the process as it is, and a send
\* that completes on the Running process does not fail.
C11_LeavesRunning ==
    [][/\ (status = "Running" /\ status' # "Running") =>
            \/ /\ status' = "StoppedOk"
               /\ \A c \in Clients : handle[c] = "none"
               /\ queue = <<>>
            \/ /\ status' = "StoppedErr"
               /\ out.res.tag = "Err"
               /\ out.res.err \in {"InvalidState", "MailboxClosed", "CastFailed"}
       /\ ((\E c \in Clients : handle[c] = "held" /\ handle'[c] = "none")
             /\ (\E d \in Clients : handle'[d] = "held")) =>
            /\ status' = status
            /\ queue' = queue
            /\ pc' = pc
       /\ \A c \in Clients :
            (status = "Running" /\ SendCompletes(c) /\ pc'[c] = "idle") =>
                lastRes'[c].res = OkUnit
      ]_vars

\* One client has used and dropped its handle; the process is Running and
\* a cast sent afterwards through the other handle is queued, having
\* returned Ok.
C11_Witness ==
    \E c, d \in Clients :
        /\ status = "Running"
        /\ handle[c] = "none" /\ nOps[c] > 0
        /\ handle[d] = "held"
        /\ lastRes[d].kind = "cast" /\ lastRes[d].res = OkUnit
        /\ \E i \in 1..Len(queue) : queue[i] = Msg("cast", d, lastRes[d].seq)

\* The last handle was dropped and the run loop has ended with Ok.
C11_WitnessStopped ==
    /\ status = "StoppedOk"
    /\ runResult = OkUnit
    /\ \E c \in Clients : handled[c] # <<>>

\* The message of the last finished operation of client c was given to the
\* handler.
LastHandled(c) == \E i \in 1..Len(handled[c]) : handled[c][i] = lastRes[c].seq

\* C12: cast returns Ok in the very step that enqueues its envelope; what
\* handle_cast returns and what the run loop does with it changes neither
\* the result a cast has returned nor any client's position, so a cast
\* whose message was handled has returned Ok whatever handle_cast
\* returned; a cast that returned an error was never enqueued.
C12_CastResultAtEnqueue ==
    /\ [][\A c \in Clients :
             (Len(queue') = Len(queue) + 1
                 /\ queue'[Len(queue')].kind = "cast"
                 /\ queue'[Len(queue')].from = c) =>
                    /\ pc'[c] = "idle"
                    /\ lastRes'[c] = Done(queue'[Len(queue')], OkUnit)]_vars
    /\ [][(out' # out /\ "handle_cast" \in {out.callback, out'.callback}) =>
             /\ lastRes' = lastRes
             /\ pc' = pc
             /\ resolved' = resolved]_vars
    /\ [](\A c \in Clients :
            lastRes[c].kind = "cast" =>
                /\ lastRes[c].res \in {OkUnit, SendError}
                /\ LastHandled(c) => lastRes[c].res = OkUnit
                /\ lastRes[c].res = SendError =>
                      /\ ~LastHandled(c)
                      /\ \A i \in 1..Len(queue) : queue[i] # Msg("cast", c, lastRes[c].seq))

\* The only message handled so far is a cast that had returned Ok to its
\* caller, and handle_cast has failed on it with a non-recoverable error,
\* which stopped the process.
C12_Witness ==
    \E c \in Clients :
        /\ status = "StoppedErr"
        /\ lastRes[c].kind = "cast"
        /\ lastRes[c].res = OkUnit
        /\ handled[c] = <<lastRes[c].seq>>
        /\ \A d \in Clients \ {c} : handled[d] = <<>>

\* C13: once Process::run has returned, an operation of any kind issued
\* through a handle completes in its first poll with MailboxClosed: its
\* message is not enqueued, its caller is not suspended and does not wait
\* for a reply, and no callback runs for it.
C13_SendAfterTermination ==
    [][\A c \in Clients :
         (Stopped /\ nOps'[c] > nOps[c]) =>
             /\ pc'[c] = "idle"
             /\ lastRes'[c].seq = nOps'[c]
             /\ lastRes'[c].kind \in MsgKinds
             /\ lastRes'[c].res = ErrV("MailboxClosed")
             /\ queue' = queue
             /\ inflight' = inflight
             /\ replied' = replied
      ]_vars

\* handle_cast failed on the one cast of a client and the process stopped;
\* the other client's one cast, which cannot have found the mailbox full,
\* returned MailboxClosed.
C13_Witness ==
    \E c, d \in Clients :
        /\ c # d
        /\ status = "StoppedErr"
        /\ nOps[c] = 1 /\ handled[c] = <<1>>
        /\ nOps[d] = 1 /\ handled[d] = <<>>
        /\ lastRes[d] = Done(Msg("cast", d, 1), ErrV("MailboxClosed"))

\* C14: when the handler of a call envelope completes, what handle_call
\* returned (Ok or Err) is sent once into the reply channel of that very
\* envelope and into no other; a reply is sent in no other step; a caller
\* whose channel holds a reply returns exactly that value when its call
\* returns; and a channel that holds a reply is the one its own caller
\* waits on.
C14_ReplyForwarded ==
    /\ [][\A m \in inflight :
             (m.kind = "call" /\ inflight' = {}) =>
                 /\ out'.callback = "handle_call"
                 /\ out'.cb \in {OkV(state)} \cup Errs
                 /\ replied[Id(m)] = 0 /\ replied'[Id(m)] = 1
                 /\ chan[Id(m)].st \in {"open", "rxdropped"}
                 /\ chan[Id(m)].st = "open" => chan'[Id(m)] = Chan("full", out'.cb)
                 /\ chan[Id(m)].st = "rxdropped" => chan'[Id(m)].st = "done"
                 /\ \A id \in CallIds \ {Id(m)} :
                        chan'[id] = chan[id] /\ replied'[id] = replied[id]]_vars
    /\ [][replied' # replied =>
             \E m \in inflight : m.kind = "call" /\ inflight' = {}]_vars
    /\ [][\A c \in Clients :
             (pc[c] = "awaiting" /\ pc'[c] = "idle"
                 /\ lastRes'[c].res # Abandoned
                 /\ chan[Id(cur[c])].st = "full") =>
                    /\ lastRes'[c] = Done(cur[c], chan[Id(cur[c])].val)
                    /\ \A id \in CallIds \ {Id(cur[c])} : chan'[id] = chan[id]]_vars
    /\ [](\A id \in CallIds :
            chan[id].st = "full" =>
                /\ replied[id] = 1
                /\ pc[id[1]] = "awaiting"
                /\ Id(cur[id[1]]) = id)

\* One caller has received the error handle_call returned for its call
\* while the reply to the other caller's call, an Ok, waits in that call's
\* channel.
C14_Witness ==
    \E c, d \in Clients :
        /\ c # d
        /\ lastRes[c].kind = "call"
        /\ lastRes[c].res = ErrV("InvalidState")
        /\ replied[<<c, lastRes[c].seq>>] = 1
        /\ pc[d] = "awaiting"
        /\ chan[Id(cur[d])].st = "full"
        /\ chan[Id(cur[d])].val.tag = "Ok"

(* --------------------------- process factory -------------------------- *)

\* ProcessBuilder::new()
BuilderNew ==
    /\ ~builder.made
    /\ Len(procs) < MaxProcs
    /\ builder' = [made |-> TRUE, name |-> None]
    /\ UNCHANGED procs
    /\ UNCHANGED <<initResult, startResult, resolved, chan, handle>>
    /\ UNCHANGED procVars
    /\ UNCHANGED clientVars

\* ProcessBuilder::name(n): n is a name of the caller's choosing, which may
\* be an identifier an earlier spawn returned.
BuilderName(n) ==
    /\ builder.made
    /\ builder' = [builder EXCEPT !.name = Some(n)]
    /\ UNCHANGED procs
    /\ UNCHANGED <<initResult, startResult, resolved, chan, handle>>
    /\ UNCHANGED procVars
    /\ UNCHANGED clientVars

\* ProcessBuilder::spawn: consumes the builder, creates and launches the
\* process and returns its identifier (with the handle).
BuilderSpawn ==
    /\ builder.made
    /\ procs' = Spawned(builder.name, procs)
    /\ builder' = NoBuilder
    /\ UNCHANGED <<initResult, startResult, resolved, chan, handle>>
    /\ UNCHANGED procVars
    /\ UNCHANGED clientVars

\* The run loop of the i-th process ends (its handles were dropped, or
\* its handler failed for good): the process is no longer live.
ProcExit(i) ==
    /\ procs[i].alive
    /\ procs' = Exited(procs, i)
    /\ UNCHANGED builder
    /\ UNCHANGED <<initResult, startResult, resolved, chan, handle>>
    /\ UNCHANGED procVars
    /\ UNCHANGED clientVars

SpawnNext ==
    \/ BuilderNew
    \/ \E n \in Names \cup {procs[i].pid : i \in 1..Len(procs)} : BuilderName(n)
    \/ BuilderSpawn
    \/ \E i \in 1..Len(procs) : ProcExit(i)

\* The processes a program spawns through ProcessBuilder.
SpawnSpec == Init /\ [][SpawnNext]_vars

\* The i-th and the j-th process spawned are two live processes.
BothLive(i, j) == i # j /\ procs[i].alive /\ procs[j].alive

\* C15: any two live processes have different identifiers, whether the
\* identifiers were given by the caller or generated by spawn.
C15_DistinctPids ==
    \A i, j \in 1..Len(procs) : BothLive(i, j) => procs[i].pid # procs[j].pid

\* Two processes spawned under the same caller-given name are both live.
C15_Witness ==
    \E i, j \in 1..Len(procs) :
        /\ BothLive(i, j)
        /\ procs[i].pid = procs[j].pid
        /\ procs[i].pid \in Names

\* What does hold of C15: the identifier a process got at spawn never
\* changes.
C15_PidStable ==
    [][\A i \in 1..Len(procs) :
         Len(procs') >= Len(procs) /\ procs'[i].pid = procs[i].pid]_vars

\* C16: is_recoverable is true for ProcessNotFound and Timeout and false
\* for InvalidState, MailboxClosed and CastFailed, as in the spec's table;
\* and when the run loop looks at an error its handler returned, the
\* process stays Running exactly if the kind is ProcessNotFound or Timeout.
C16_RecoverableTable ==
    /\ [](/\ IsRecoverable("ProcessNotFound") = TRUE
          /\ IsRecoverable("InvalidState") = FALSE
          /\ IsRecoverable("MailboxClosed") = FALSE
          /\ IsRecoverable("Timeout") = TRUE
          /\ IsRecoverable("CastFailed") = FALSE)
    /\ [][(out # NoOut /\ out' = NoOut /\ out.res.tag = "Err") =>
             /\ out.res.err \in ErrorKinds
             /\ status' = "Running" <=> out.res.err \in {"ProcessNotFound", "Timeout"}
             /\ status' = "StoppedErr" <=>
                    out.res.err \in {"InvalidState", "MailboxClosed", "CastFailed"}]_vars

\* The run loop has looked at a CastFailed error of its handler and has
\* returned it, after it had gone on past an earlier message.
C16_Witness ==
    /\ status = "StoppedErr"
    /\ runResult = ErrV("CastFailed")
    /\ \E c \in Clients : Len(handled[c]) >= 2

\* C17: the mailbox never holds more than Capacity messages, whatever the
\* number of handles and of senders; a send that completes with Ok has
\* found a free slot and put its message there, and nothing but a receive
\* of the run loop, or the drop of the mailbox, takes a message out.
C17_MailboxBounded ==
    /\ [](Len(queue) <= Capacity)
    /\ [][\A c \in Clients :
             (SendCompletes(c) /\ status' = "Running") =>
                 /\ Len(queue) < Capacity
                 /\ Len(queue') = Len(queue) + 1
                 /\ SubSeq(queue', 1, Len(queue)) = queue
                 /\ queue'[Len(queue')].from = c]_vars
    /\ [][Len(queue') > Len(queue) =>
             \E c \in Clients : SendCompletes(c) /\ Len(queue') = Len(queue) + 1]_vars

\* The mailbox is full, the last slot having been taken by a send that
\* returned Ok, and the other client, whose send found no slot, is
\* suspended.
C17_Witness ==
    \E c, d \in Clients :
        /\ c # d
        /\ status = "Running"
        /\ Len(queue) = Capacity
        /\ lastRes[c].res = OkUnit
        /\ queue[Capacity] = Msg(lastRes[c].kind, c, lastRes[c].seq)
        /\ pc[d] = "sending"

\* C18: whatever handle_call returns, an error of any kind included, the
\* handler hands Ok to the run loop (the error goes to the caller through
\* the reply channel), and the run loop, looking at it, leaves the process
\* Running with its mailbox as it is and ready for the next message; the
\* process goes to Stopped(Err) only on a non-recoverable error returned
\* by handle_cast.
C18_CallFailureAbsorbed ==
    [][/\ out'.callback = "handle_call" =>
            /\ out'.res = OkUnit
            /\ status' = "Running"
       /\ \A m \in inflight :
            (m.kind = "call" /\ inflight' = {} /\ chan[Id(m)].st = "open") =>
                chan'[Id(m)].val = out'.cb
       /\ (out.callback = "handle_call" /\ out' = NoOut) =>
            /\ status' = "Running"
            /\ runResult' = NoRes
            /\ queue' = queue
            /\ LoopReady'
       /\ (status = "Running" /\ status' = "StoppedErr") =>
            /\ out.callback = "handle_cast"
            /\ out.cb = out.res
            /\ out.cb.tag = "Err"
            /\ out.cb.err \in {"InvalidState", "MailboxClosed", "CastFailed"}
      ]_vars

\* A call has returned to its caller the InvalidState error handle_call
\* replied, and the process, still Running, has since handled the caller's
\* next message.
C18_Witness ==
    \E c \in Clients :
        /\ status = "Running"
        /\ runResult = NoRes
        /\ lastRes[c].kind = "call"
        /\ lastRes[c].res = ErrV("InvalidState")
        /\ replied[<<c, lastRes[c].seq>>] = 1
        /\ \E i \in 1..Len(handled[c]) : handled[c][i] > lastRes[c].seq

\* The caller of call envelope m has dropped its reply Receiver and no
\* reply has been sent.
AbandonedCall(m) == m.kind = "call" /\ chan[Id(m)].st = "rxdropped"

\* C19: a call envelope whose caller has gone is received and handled like
\* any other: the run loop can take it from the head of the mailbox,
\* handle_call can complete for it, and when it does the reply is sent once
\* and lost, Ok is handed to the run loop, and the run loop leaves the
\* process Running with its mailbox as it is, ready for the next message.
C19_AbandonedCallHandled ==
    /\ []((status = "Running" /\ LoopReady /\ queue # <<>>
             /\ AbandonedCall(First(queue))) => ENABLED Recv)
    /\ [](\A m \in inflight :
            (status = "Running" /\ AbandonedCall(m)) => ENABLED HandlerDone)
    /\ [][\A m \in inflight :
             (AbandonedCall(m) /\ inflight' = {}) =>
                 /\ out'.callback = "handle_call"
                 /\ out'.cb \in {OkV(state)} \cup Errs
                 /\ out'.res = OkUnit
                 /\ replied'[Id(m)] = 1
                 /\ chan'[Id(m)] = Chan("done", NoRes)
                 /\ resolved'[Id(m)] = 0
                 /\ status' = "Running"
                 /\ queue' = queue]_vars
    /\ [][(out.callback = "handle_call" /\ out' = NoOut) =>
             /\ status' = "Running"
             /\ queue' = queue
             /\ LoopReady']_vars

\* handle_call is running for a call whose caller has gone, while another
\* message waits in the mailbox.
C19_Witness ==
    /\ status = "Running"
    /\ \E m \in inflight : AbandonedCall(m)
    /\ queue # <<>>

\* How many times the message with sequence number s of client c is in the
\* mailbox or was given to the handler.
Occurrences(c, s) ==
    Cardinality({i \in 1..Len(queue) : queue[i].from = c /\ queue[i].seq = s})
    + Cardinality({i \in 1..Len(handled[c]) : handled[c][i] = s})

\* The send of the message with sequence number s of client c returned Ok
\* (on a process that has not failed every send that has completed did).
SentOk(c, s) ==
    /\ s \in 1..nOps[c]
    /\ ~(pc[c] = "sending" /\ cur[c].seq = s)

\* The message with sequence number s of client c was given to the handler.
Handled(c, s) == \E i \in 1..Len(handled[c]) : handled[c][i] = s

\* C20: while no handler invocation has made the process fail, every
\* message whose send returned Ok is in the mailbox or was given to the
\* handler, once in all (none is lost, none is handled twice); dropping the
\* last handle leaves the queued messages where they are; when the
\* process is Stopped(Ok) every such message was given to the handler and
\* its handler has completed; and the mailbox of a Running process does get
\* emptied, by handling, unless the process fails.
C20_HandledExactlyOnce ==
    /\ [](\A c \in Clients : \A s \in 1..MaxSeq : Occurrences(c, s) <= 1)
    /\ [](status \in {"Running", "StoppedOk"} =>
            \A c \in Clients : \A s \in 1..MaxSeq :
                SentOk(c, s) => Occurrences(c, s) = 1)
    /\ [][((\E c \in Clients : handle[c] = "held")
             /\ (\A c \in Clients : handle'[c] = "none")) =>
                /\ status' = status
                /\ queue' = queue
                /\ inflight' = inflight]_vars
    /\ [](status = "StoppedOk" =>
            /\ queue = <<>>
            /\ inflight = {}
            /\ out = NoOut
            /\ \A c \in Clients : \A s \in 1..nOps[c] : Handled(c, s)
            /\ \A c \in Clients : Len(handled[c]) = nOps[c])
    /\ (status = "Running" /\ queue # <<>>)
          ~> (queue = <<>> \/ status = "StoppedErr")

\* Every handle has been dropped while the mailbox of the Running process
\* is full of messages not yet handled.
C20_Witness ==
    /\ status = "Running"
    /\ \A c \in Clients : handle[c] = "none"
    /\ Len(queue) = Capacity

\* The process has ended with Ok after it handled all the messages sent,
\* those of both clients.
C20_WitnessStopped ==
    /\ status = "StoppedOk"
    /\ \A c \in Clients : nOps[c] > 0 /\ Len(handled[c]) = nOps[c]

====
